---- MODULE Spec2Model ----
(***************************************************************************)
(* State-machine model of the DDPG agent of rl/agents/ddpg.py: the         *)
(* training cadence of backward / backward_offline, the fit routine        *)
(* fit_controllers with its critic and actor steps, the hard and soft      *)
(* target-network synchronisation, and the checkpoint / rollback guard.    *)
(*                                                                         *)
(* Numbers.  A network's weights are a vector of fixed-point integers.     *)
(* A target-update parameter tau is held in units of 1/TauDen, so the      *)
(* value TauDen stands for tau = 1.  Gradient norms and the reset          *)
(* threshold are held in tenths (0.3 is 3).                                *)
(*                                                                         *)
(* Collaborators.  The replay buffer is its number of experiences.  One    *)
(* run of a train op (Adam) moves every parameter of the fitted network by *)
(* a value of Deltas; the gradient norm fit_actor measures is a value of   *)
(* GradNorms.  clone_model gives a target the weights of its live network  *)
(* (see the remark in compile on equal initial values).  The driver of     *)
(* the agent owns training, training_step, episode and done.               *)
(*                                                                         *)
(* `last` records the last backward / backward_offline call: its           *)
(* arguments, what it decided, and the agent's fields on entry.  It also   *)
(* records a constructor, select_action, load_weights or fit_critic call   *)
(* while that call is the last operation made.                             *)
(*                                                                         *)
(* Networks.  The actor maps a state to an action of two components and    *)
(* the critic maps a state and an action to a value (Policy, QValue); the  *)
(* replay buffer yields batches of two transitions.  Rewards and Q values  *)
(* are held in hundredths, gamma in units of 1/GammaDen.                   *)
(***************************************************************************)
EXTENDS Integers, Sequences, FiniteSets, TLC

\* ---------------------------------------------------------------- bounds
MaxStep == 2
MaxCalls == 2
MaxCheckpoints == 2
\* the run of consecutive backward calls of the cadence specification
WindowCalls == 4

\* ------------------------------------------------------- fixed-point units
TauDen == 4

\* actor_reset_threshold=0.3 (default of __init__), in tenths
actor_reset_threshold == 3

GammaDen == 100
\* gamma=.99 (default of __init__), in units of 1/GammaDen
gamma == 99

\* ------------------------------------------------------------ input sets
\* raw target_*_update arguments, in units of 1/TauDen: -0.25, 0.25, 1, 2.5
RawTaus == {-1, 1, 4, 10}
Intervals == {1, 2}
Warmups == {0, 2}
\* actor gradient norms a fit can measure, in tenths
GradNorms == {3, 4}
\* parameter change produced by one optimiser step (Adam), fixed point
Deltas == {16}
ActorInit == <<0>>
CriticInit == <<8>>
\* raw target_*_update arguments of the construction specification:
\* -0.5 .. 2.75 in steps of 0.25
WideTaus == -2 .. 11
\* len(actor.output), len(critic.output), len(critic.input); 0 stands for
\* a single tensor, which has no __len__
ActorOutputs == {0, 1, 2}
CriticOutputs == {0, 1, 2}
CriticInputs == {0, 1, 2, 3}
\* env.action_space.low and env.action_space.high, two components
EnvLow == <<-2, 0>>
EnvHigh == <<2, 1>>
\* observations handed to select_action
States == {-3, 0, 3}
\* samples of the random process, one value per action component
Noises == {<<-4, 4>>, <<0, 0>>, <<4, -1>>}
\* weights found in the files load_weights reads
LoadedActor == <<32>>
LoadedCritic == <<40>>
\* a transition of the replay buffer: reward, state1, terminal1
Transition(r, s1, t) == [reward |-> r, state1 |-> s1, terminal1 |-> t]
\* the batches memory.sample can return to the fit routine
Batches ==
    {<<Transition(100, 0, t1), Transition(100, 0, t2)>> :
        t1 \in BOOLEAN, t2 \in BOOLEAN}
\* the batches handed to a direct fit_critic call
WideBatches ==
    {<<Transition(r1, s1, t1), Transition(r2, s2, t2)>> :
        r1 \in {0, 100}, r2 \in {0, 100}, s1 \in {0, 1}, s2 \in {0, 1},
        t1 \in BOOLEAN, t2 \in BOOLEAN}
\* target critic weights of the critic specification
TargetCritics == {<<8>>, <<200>>}

VARIABLES
    phase,                  \* "new" | "constructed" | "failed"
    compiled,               \* self.compiled
    training,               \* self.training
    training_step,          \* self.training_step
    episode,                \* self.episode
    done,                   \* self.done
    memory,                 \* number of experiences in self.memory
    actor,                  \* weights of self.actor
    critic,                 \* weights of self.critic
    target_actor,           \* weights of self.target_actor, <<>> before compile
    target_critic,          \* weights of self.target_critic, <<>> before compile
    checkpoints,            \* self.checkpoints
    metrics,                \* self.metrics["actor/gradient_norm"], <<>> if unset
    step_summaries,         \* number of summary lists in self.step_summaries
    target_actor_update,    \* self.target_actor_update
    target_critic_update,   \* self.target_critic_update
    train_interval,         \* self.train_interval
    memory_interval,        \* self.memory_interval
    reset_controlers,       \* self.reset_controlers
    raw_update,             \* the target_actor_update and target_critic_update
                            \* arguments the agent was constructed with
    exploration,            \* self.exploration
    random_process,         \* <<>> if self.random_process is None, else
                            \* <<the sample it last gave>>
    actions_low,            \* self.actions_low
    actions_high,           \* self.actions_high
    calls,                  \* number of backward / backward_offline / fit_critic
                            \* calls made
    last,                   \* record of the last operation and its pre-state
    win                     \* appends of the latest run of backward calls

config == <<target_actor_update, target_critic_update, train_interval,
            memory_interval, reset_controlers, raw_update>>
counters == <<training_step, episode, done>>
nets == <<actor, critic, target_actor, target_critic>>
acting == <<exploration, random_process, actions_low, actions_high>>
vars == <<phase, compiled, training, training_step, episode, done, memory,
          actor, critic, target_actor, target_critic, checkpoints, metrics,
          step_summaries, target_actor_update, target_critic_update,
          train_interval, memory_interval, reset_controlers, raw_update,
          exploration, random_process, actions_low, actions_high, calls, last, win>>

\* ------------------------------------------------------------- helpers
\* one optimiser step on a weight vector
ApplyStep(w, d) == [i \in DOMAIN w |-> w[i] + d]

\* mutant of SoftUpdate: the two coefficients exchanged
SoftUpdateSwapped(tau, tw, sw) ==
    [i \in DOMAIN tw |-> (tau * tw[i] + (TauDen - tau) * sw[i]) \div TauDen]

\* get_soft_target_model_ops: (1 - tau) * target + tau * source, per parameter
SoftUpdate(tau, tw, sw) ==
    [i \in DOMAIN tw |-> ((TauDen - tau) * tw[i] + tau * sw[i]) \div TauDen]

\* `hasattr(x, '__len__')` of a model's output or input of length n
HasLen(n) == n > 0

\* mutant of ModelsAccepted: the models are not checked
ModelsAcceptedAny(ao, co, ci) == TRUE

\* __init__: the checks of the actor's outputs, the critic's outputs and the
\* critic's inputs, none of which raises
ModelsAccepted(ao, co, ci) ==
    /\ ~(HasLen(ao) /\ ao > 1)
    /\ ~(HasLen(co) /\ co > 1)
    /\ ~(~HasLen(ci) \/ ci < 2)

\* mutant of ParamAccepted: a negative parameter is accepted
ParamAcceptedAny(param) == TRUE

\* process_parameterization_variable: the accepted arguments
ParamAccepted(param) == ~(param < 0)

\* mutant of process_parameterization_variable: no truncation
process_parameterization_variable_untruncated(param) == param

\* process_parameterization_variable: the value returned
process_parameterization_variable(param) ==
    IF param >= TauDen THEN (param \div TauDen) * TauDen ELSE param

\* `self.target_*_update >= 1`
IsHard(tau) == tau >= TauDen

\* the integer period of a hard-mode tau
Period(tau) == tau \div TauDen

\* the actor network applied to a state: an action of two components
Policy(w, s) == <<w[1] + s, w[1] - s>>

\* the critic network applied to a state and an action
QValue(w, s, act) == w[1] + s + act[1] + act[2]

Min(x, y) == IF x < y THEN x ELSE y
Max(x, y) == IF x > y THEN x ELSE y

\* np.clip(x, low, high), per component
Clip(x, low, high) == [i \in DOMAIN x |-> Min(Max(x[i], low[i]), high[i])]

\* the view of the agent the fit routine works on; the fields after rollback
\* are what one fit call did: the batches it sampled, the critic targets it
\* regressed on and the target weights they were computed from, the actor
\* weights the gradient norm was measured at, the critic weights the actor
\* was fitted against
Agent == [actor |-> actor, critic |-> critic,
          target_actor |-> target_actor, target_critic |-> target_critic,
          metrics |-> metrics, step_summaries |-> step_summaries,
          rollback |-> FALSE,
          sampled |-> 0, y |-> <<>>, td_from |-> <<>>, grad_at |-> <<>>,
          critic_at |-> <<>>]

\* what one fit call did, as the `last` record keeps it
TraceOf(a) == [sampled |-> a.sampled, y |-> a.y, td_from |-> a.td_from,
               grad_at |-> a.grad_at, critic_at |-> a.critic_at]

\* the pre-state a `last` record keeps
Pre == [actor |-> actor, critic |-> critic,
        target_actor |-> target_actor, target_critic |-> target_critic,
        memory |-> memory, checkpoints |-> checkpoints, metrics |-> metrics,
        step_summaries |-> step_summaries,
        training_step |-> training_step, episode |-> episode, done |-> done,
        random_process |-> random_process]

\* the record of a call of the given operation, before its outcome is known
Op(name) == [op |-> name, wa |-> 0, wc |-> 0, selActor |-> FALSE,
             selCritic |-> FALSE, appended |-> FALSE,
             fitCalled |-> FALSE, fitActor |-> FALSE, fitCritic |-> FALSE,
             rollback |-> FALSE, pre |-> Pre,
             args |-> <<>>, out |-> <<>>, prev |-> <<>>, trace |-> <<>>]

\* the record kept when the last operation was none of the recorded calls
Idle == [op |-> "none", wa |-> 0, wc |-> 0, selActor |-> FALSE,
         selCritic |-> FALSE, appended |-> FALSE,
         fitCalled |-> FALSE, fitActor |-> FALSE, fitCritic |-> FALSE,
         rollback |-> FALSE, pre |-> <<>>,
         args |-> <<>>, out |-> <<>>, prev |-> <<>>, trace |-> <<>>]

\* ------------------------------------------------------ the fit routine
\* mutant of restore_checkpoint: the critic pair is restored whatever `critic`
restore_checkpoint_both(a, cps, ract, rcrit, checkpoint_id) ==
    LET cp == cps[checkpoint_id + 1]
        a1 == IF ract
              THEN [a EXCEPT !.actor = cp[1], !.target_actor = cp[1]]
              ELSE a
    IN  [a1 EXCEPT !.critic = cp[2], !.target_critic = cp[2]]

\* mutant of restore_checkpoint: the latest checkpoint is read, not checkpoint_id
restore_checkpoint_latest(a, cps, ract, rcrit, checkpoint_id) ==
    LET cp == cps[Len(cps)]
        a1 == IF ract
              THEN [a EXCEPT !.actor = cp[1], !.target_actor = cp[1]]
              ELSE a
    IN  IF rcrit
        THEN [a1 EXCEPT !.critic = cp[2], !.target_critic = cp[2]]
        ELSE a1

\* restore_checkpoint(actor, critic, checkpoint_id) on an agent view
restore_checkpoint(a, cps, ract, rcrit, checkpoint_id) ==
    LET cp == cps[checkpoint_id + 1]
        a1 == IF ract
              THEN [a EXCEPT !.actor = cp[1], !.target_actor = cp[1]]
              ELSE a
    IN  IF rcrit
        THEN [a1 EXCEPT !.critic = cp[2], !.target_critic = cp[2]]
        ELSE a1

\* mutant of ActorCollapsed: can_reset_actor is not consulted
ActorCollapsedAnyTime(can_reset_actor, gn) == gn <= actor_reset_threshold

\* fit_actor: the condition of the rollback
ActorCollapsed(can_reset_actor, gn) ==
    can_reset_actor /\ gn <= actor_reset_threshold

\* mutant of critic_targets: a terminal transition's target is its reward
critic_targets_masked(batch, ta, tc) ==
    [i \in DOMAIN batch |->
        IF batch[i].terminal1
        THEN batch[i].reward
        ELSE batch[i].reward
             + (gamma * QValue(tc, batch[i].state1, Policy(ta, batch[i].state1)))
                   \div GammaDen]

\* fit_critic: `critic_targets = batch.reward + self.gamma * target_q_values`
\* with the target Q values of the networks of weights ta and tc
critic_targets(batch, ta, tc) ==
    [i \in DOMAIN batch |->
        batch[i].reward
        + (gamma * QValue(tc, batch[i].state1, Policy(ta, batch[i].state1)))
              \div GammaDen]

\* fit_critic: the targets from the target networks, then one optimiser
\* step on the critic
fit_critic(a, batch, dc) ==
    [a EXCEPT !.y = critic_targets(batch, a.target_actor, a.target_critic),
              !.td_from = <<a.target_actor, a.target_critic>>,
              !.critic = ApplyStep(a.critic, dc)]

\* mutant of fit_actor: the rollback restores the critic pair too
fit_actor_restores_critic(a, cps, da, gn, can_reset_actor) ==
    LET a1 == [a EXCEPT !.metrics = <<gn>>,
                        !.grad_at = a.actor,
                        !.critic_at = a.critic,
                        !.actor = ApplyStep(a.actor, da)]
    IN  IF ActorCollapsed(can_reset_actor, gn)
        THEN [restore_checkpoint(a1, cps, TRUE, TRUE, 0)
                 EXCEPT !.rollback = TRUE]
        ELSE a1

\* fit_actor: the gradient norm gn is recorded before the optimiser step,
\* then the step, then the rollback guard
fit_actor(a, cps, da, gn, can_reset_actor) ==
    LET a1 == [a EXCEPT !.metrics = <<gn>>,
                        !.grad_at = a.actor,
                        !.critic_at = a.critic,
                        !.actor = ApplyStep(a.actor, da)]
    IN  IF ActorCollapsed(can_reset_actor, gn)
        THEN [restore_checkpoint(a1, cps, TRUE, FALSE, 0)
                 EXCEPT !.rollback = TRUE]
        ELSE a1

\* mutant of SyncTargetActor: the soft blend is gated like the hard update
SyncTargetActorGated(a, tau, hard_update_target_actor) ==
    IF hard_update_target_actor
    THEN IF IsHard(tau)
         THEN [a EXCEPT !.target_actor = a.actor]
         ELSE [a EXCEPT !.target_actor = SoftUpdate(tau, a.target_actor, a.actor)]
    ELSE a

\* mutant of SyncTargetActor: the hard update is never made
SyncTargetActorNoHard(a, tau, hard_update_target_actor) ==
    IF IsHard(tau)
    THEN a
    ELSE [a EXCEPT !.target_actor = SoftUpdate(tau, a.target_actor, a.actor)]

\* fit_controllers: the update of the target actor
SyncTargetActor(a, tau, hard_update_target_actor) ==
    IF IsHard(tau)
    THEN IF hard_update_target_actor
         THEN [a EXCEPT !.target_actor = a.actor]
         ELSE a
    ELSE [a EXCEPT !.target_actor = SoftUpdate(tau, a.target_actor, a.actor)]

\* fit_controllers: the update of the target critic
SyncTargetCritic(a, tau, hard_update_target_critic) ==
    IF IsHard(tau)
    THEN IF hard_update_target_critic
         THEN [a EXCEPT !.target_critic = a.critic]
         ELSE a
    ELSE [a EXCEPT !.target_critic = SoftUpdate(tau, a.target_critic, a.critic)]

\* the number of summary lists one fit call adds to step_summaries
SummariesOf(fitc, fita) ==
    (IF fitc THEN 1 ELSE 0) + (IF fita THEN 1 ELSE 0)

\* mutant of fit_controllers: the targets are synchronised before the fits
fit_controllers_sync_first(a, cps, batch, fitc, fita, can_reset_actor, hard_c, hard_a, da, dc, gn) ==
    LET a0 == [a EXCEPT !.sampled = a.sampled + 1]
        a1 == SyncTargetActor(a0, target_actor_update, hard_a)
        a2 == SyncTargetCritic(a1, target_critic_update, hard_c)
        a3 == IF fitc THEN fit_critic(a2, batch, dc) ELSE a2
        a4 == IF fita THEN fit_actor(a3, cps, da, gn, can_reset_actor) ELSE a3
    IN  [a4 EXCEPT !.step_summaries = a.step_summaries + SummariesOf(fitc, fita)]

\* fit_controllers: the batch is sampled, then critic, actor, targets
fit_controllers(a, cps, batch, fitc, fita, can_reset_actor, hard_c, hard_a, da, dc, gn) ==
    LET a0 == [a EXCEPT !.sampled = a.sampled + 1]
        a1 == IF fitc THEN fit_critic(a0, batch, dc) ELSE a0
        a2 == IF fita THEN fit_actor(a1, cps, da, gn, can_reset_actor) ELSE a1
        a3 == SyncTargetActor(a2, target_actor_update, hard_a)
        a4 == SyncTargetCritic(a3, target_critic_update, hard_c)
    IN  [a4 EXCEPT !.step_summaries = a.step_summaries + SummariesOf(fitc, fita)]

\* ------------------------------------- acting and loading of weights
\* mutant of AddsNoise: the random process is not consulted
AddsNoiseUnconfigured(explore, process) == explore

\* select_action: `self.exploration and self.random_process is not None`
AddsNoise(explore, process) == explore /\ process # <<>>

\* the samples a select_action call can draw: none when it adds no noise
NoisesOf(noisy) == IF noisy THEN Noises ELSE {<<0, 0>>}

\* mutant of select_action: the action is clipped before the noise is added
select_action_clip_first(w, s, noisy, n, low, high) ==
    LET act == Clip(Policy(w, s), low, high)
    IN  IF noisy THEN [i \in DOMAIN act |-> act[i] + n[i]] ELSE act

\* select_action: the actor's output, the noise n when noisy, then np.clip
select_action(w, s, noisy, n, low, high) ==
    LET raw == Policy(w, s)
        act == IF noisy THEN [i \in DOMAIN raw |-> raw[i] + n[i]] ELSE raw
    IN  Clip(act, low, high)

hard_update_target_critic(a) == [a EXCEPT !.target_critic = a.critic]

hard_update_target_actor(a) == [a EXCEPT !.target_actor = a.actor]

\* hard_update_target_models, which load_weights calls: both hard updates
hard_update_target_models(a) ==
    hard_update_target_actor(hard_update_target_critic(a))

\* mutant of load_weights: the targets are not synchronised
load_weights_no_sync(a, wa, wc) == [a EXCEPT !.actor = wa, !.critic = wc]

\* load_weights: the actor's file, the critic's file, then the targets
load_weights(a, wa, wc) ==
    hard_update_target_models([a EXCEPT !.actor = wa, !.critic = wc])

\* ------------------------------------------- cadence and eligibility
\* mutant of AppendDue: every call appends
AppendEveryCall(step, interval) == TRUE

\* mutant of AppendDue: the decision depends on the buffer the call fills
AppendWhileEmpty(step, interval) == step % interval = 0 /\ memory = 0

\* backward: `self.training_step % self.memory_interval == 0`
AppendDue(step, interval) == step % interval = 0

\* mutant of TrainDue: every call trains
TrainEveryStep(step, interval) == TRUE

\* backward / backward_offline: `self.training_step % self.train_interval == 0`
TrainDue(step, interval) == step % interval = 0

\* mutant of PastWarmup: the comparison is not strict
PastWarmupInclusive(step, warmup) == step >= warmup

\* backward: `fit_critic = (self.training_step > warmup_critic)`, same for actor
PastWarmup(step, warmup) == step > warmup

\* mutant of HardUpdateDue: a hard-mode target is eligible at every step
HardUpdateOnEveryFit(step, tau) == IsHard(tau)

\* backward / backward_offline: hard-update eligibility of one target
HardUpdateDue(step, tau) ==
    IF IsHard(tau) THEN step % Period(tau) = 0 ELSE FALSE

\* mutant of CanResetActor: the end of the episode is not required
CanResetActorNotDone == (episode % 5 = 0) /\ reset_controlers

\* backward: hard_update_target_critic and hard_update_target_actor, which
\* exist only in a call made at a training step
HardFlags ==
    IF TrainDue(training_step, train_interval)
    THEN <<HardUpdateDue(training_step, target_critic_update),
           HardUpdateDue(training_step, target_actor_update)>>
    ELSE <<>>

\* backward / backward_offline: `can_reset_actor`
CanResetActor == done /\ (episode % 5 = 0) /\ reset_controlers

\* the optimiser steps and gradient norms a call can meet: none when the
\* network is not fitted in it
StepsOf(fitted) == IF fitted THEN Deltas ELSE {0}
NormsOf(fitted) == IF fitted THEN GradNorms ELSE {0}

\* the batches a call can sample: none when the fit routine is not run
BatchesOf(fit) == IF fit THEN Batches ELSE {<<>>}

\* ------------------------------------------------------------ actions
Init ==
    /\ phase = "new"
    /\ compiled = FALSE
    /\ training = FALSE
    /\ training_step = 0
    /\ episode = 0
    /\ done = FALSE
    /\ memory = 0
    /\ actor = <<>>
    /\ critic = <<>>
    /\ target_actor = <<>>
    /\ target_critic = <<>>
    /\ checkpoints = <<>>
    /\ metrics = <<>>
    /\ step_summaries = 0
    /\ target_actor_update = 0
    /\ target_critic_update = 0
    /\ train_interval = 1
    /\ memory_interval = 1
    /\ reset_controlers = FALSE
    /\ raw_update = <<>>
    /\ exploration = FALSE
    /\ random_process = <<>>
    /\ actions_low = <<>>
    /\ actions_high = <<>>
    /\ calls = 0
    /\ last = Idle
    /\ win = <<>>

\* DDPGAgent.__init__ with accepted models and target-update parameters;
\* random_process is left at its default, None
Construct(ao, co, ci, ta, tc, ti, mi, rc) ==
    /\ phase = "new"
    /\ ModelsAccepted(ao, co, ci)
    /\ ParamAccepted(tc) /\ ParamAccepted(ta)
    /\ phase' = "constructed"
    /\ actions_low' = EnvLow
    /\ actions_high' = EnvHigh
    /\ random_process' = <<>>
    /\ target_critic_update' = process_parameterization_variable(tc)
    /\ target_actor_update' = process_parameterization_variable(ta)
    /\ train_interval' = ti
    /\ memory_interval' = mi
    /\ reset_controlers' = rc
    /\ raw_update' = <<ta, tc>>
    /\ actor' = ActorInit
    /\ critic' = CriticInit
    /\ last' = [Op("construct") EXCEPT !.args = <<ao, co, ci, ta, tc>>]
    /\ UNCHANGED <<compiled, training, counters, memory, target_actor,
                   target_critic, checkpoints, metrics, step_summaries,
                   exploration, calls, win>>

\* DDPGAgent.__init__ raising ValueError: from the checks of the models,
\* made first, or from process_parameterization_variable, called for the
\* critic and then for the actor once the environment's fields are set
ConstructFails(ao, co, ci, ta, tc) ==
    /\ phase = "new"
    /\ ~(ModelsAccepted(ao, co, ci) /\ ParamAccepted(tc) /\ ParamAccepted(ta))
    /\ phase' = "failed"
    /\ IF ModelsAccepted(ao, co, ci)
       THEN /\ actions_low' = EnvLow
            /\ actions_high' = EnvHigh
            /\ target_critic_update' =
                   IF ParamAccepted(tc)
                   THEN process_parameterization_variable(tc)
                   ELSE target_critic_update
       ELSE UNCHANGED <<actions_low, actions_high, target_critic_update>>
    /\ last' = [Op("construct") EXCEPT !.args = <<ao, co, ci, ta, tc>>]
    /\ UNCHANGED <<compiled, training, counters, memory, nets, checkpoints,
                   metrics, step_summaries, target_actor_update,
                   train_interval, memory_interval, reset_controlers,
                   raw_update, exploration, random_process, calls, win>>

\* mutant of Compile: the initial weights are not checkpointed
CompileNoCheckpoint ==
    /\ phase = "constructed"
    /\ ~compiled
    /\ target_actor' = actor
    /\ target_critic' = critic
    /\ compiled' = TRUE
    /\ last' = Idle
    /\ UNCHANGED <<phase, training, counters, memory, actor, critic,
                   checkpoints, metrics, step_summaries, config, calls, win,
                   acting>>

\* DDPGAgent.compile: clone the targets, checkpoint, mark compiled
Compile ==
    /\ phase = "constructed"
    /\ ~compiled
    /\ target_actor' = actor
    /\ target_critic' = critic
    /\ checkpoints' = Append(checkpoints, <<actor, critic>>)
    /\ compiled' = TRUE
    /\ last' = Idle
    /\ UNCHANGED <<phase, training, counters, memory, actor, critic, metrics,
                   step_summaries, config, calls, win, acting>>

\* mutant of Checkpoint: the new entry replaces the log
CheckpointOverwrite ==
    /\ compiled
    /\ checkpoints' = << <<actor, critic>> >>
    /\ last' = Idle
    /\ UNCHANGED <<phase, compiled, training, counters, memory, nets, metrics,
                   step_summaries, config, calls, win, acting>>

\* DDPGAgent.checkpoint
Checkpoint ==
    /\ compiled
    /\ checkpoints' = Append(checkpoints, <<actor, critic>>)
    /\ last' = Idle
    /\ UNCHANGED <<phase, compiled, training, counters, memory, nets, metrics,
                   step_summaries, config, calls, win, acting>>

\* the training-mode toggle of the driver
SetTraining(b) ==
    /\ compiled
    /\ training # b
    /\ training' = b
    /\ last' = Idle
    /\ UNCHANGED <<phase, compiled, counters, memory, nets, checkpoints,
                   metrics, step_summaries, config, calls, win, acting>>

\* one environment interaction of the driver: the counters advance
EnvStep(d) ==
    /\ compiled
    /\ training_step' = training_step + 1
    /\ episode' = IF done THEN episode + 1 ELSE episode
    /\ done' = d
    /\ last' = Idle
    /\ UNCHANGED <<phase, compiled, training, memory, nets, checkpoints,
                   metrics, step_summaries, config, calls, win, acting>>

\* the appends of the latest run of training-mode backward calls made at
\* consecutive training steps (step, buffer size before, buffer size after),
\* the last WindowCalls at most
Window(mem) ==
    LET e == <<training_step, memory, mem>>
        w == IF win # <<>> /\ win[Len(win)][1] + 1 = training_step
             THEN Append(win, e) ELSE <<e>>
    IN  IF Len(w) > WindowCalls THEN Tail(w) ELSE w

\* mutant of Stops: the training flag is not consulted
StopsNever == FALSE

\* backward / backward_offline: `if not self.training: return`
Stops == ~training

\* what the backward call just before decided (append, fit, actor fit,
\* critic fit, hard updates), kept when that call was the last operation
\* and had the same arguments
PrevDecisions(wa, wc) ==
    IF last.op = "backward" /\ last.wa = wa /\ last.wc = wc
    THEN <<last.appended, last.fitCalled, last.fitActor, last.fitCritic,
           last.out>>
    ELSE <<>>

\* DDPGAgent.backward(warmup_actor, warmup_critic)
Backward(wa, wc) ==
    /\ compiled
    /\ calls' = calls + 1
    /\ UNCHANGED <<phase, compiled, training, counters, checkpoints, config,
                   acting>>
    /\ IF Stops
       THEN /\ last' = [Op("backward") EXCEPT !.wa = wa, !.wc = wc,
                                              !.prev = PrevDecisions(wa, wc)]
            /\ win' = <<>>
            /\ UNCHANGED <<memory, nets, metrics, step_summaries>>
       ELSE LET app == AppendDue(training_step, memory_interval)
                fitc == PastWarmup(training_step, wc)
                fita == PastWarmup(training_step, wa)
                fit == TrainDue(training_step, train_interval) /\ (fita \/ fitc)
            IN  /\ memory' = IF app THEN memory + 1 ELSE memory
                /\ win' = Window(IF app THEN memory + 1 ELSE memory)
                /\ \E da \in StepsOf(fit /\ fita), dc \in StepsOf(fit /\ fitc),
                      gn \in NormsOf(fit /\ fita), b \in BatchesOf(fit) :
                     \E a \in {IF fit
                              THEN fit_controllers(Agent, checkpoints, b, fitc, fita,
                                      CanResetActor,
                                      HardUpdateDue(training_step, target_critic_update),
                                      HardUpdateDue(training_step, target_actor_update),
                                      da, dc, gn)
                              ELSE Agent} :
                         /\ actor' = a.actor
                         /\ critic' = a.critic
                         /\ target_actor' = a.target_actor
                         /\ target_critic' = a.target_critic
                         /\ metrics' = a.metrics
                         /\ step_summaries' = a.step_summaries
                         /\ last' = [Op("backward") EXCEPT
                                       !.wa = wa, !.wc = wc, !.appended = app,
                                       !.fitCalled = fit,
                                       !.fitActor = fit /\ fita,
                                       !.fitCritic = fit /\ fitc,
                                       !.rollback = a.rollback,
                                       !.trace = TraceOf(a),
                                       !.out = HardFlags,
                                       !.prev = PrevDecisions(wa, wc)]

\* DDPGAgent.backward_offline(fit_actor, fit_critic)
BackwardOffline(fita, fitc) ==
    /\ compiled
    /\ calls' = calls + 1
    /\ UNCHANGED <<phase, compiled, training, counters, checkpoints, config,
                   memory, win, acting>>
    /\ LET fit == ~Stops /\ TrainDue(training_step, train_interval)
                     /\ (fita \/ fitc)
       IN  \E da \in StepsOf(fit /\ fita), dc \in StepsOf(fit /\ fitc),
              gn \in NormsOf(fit /\ fita), b \in BatchesOf(fit) :
             \E a \in {IF fit
                      THEN fit_controllers(Agent, checkpoints, b, fitc, fita,
                              CanResetActor,
                              HardUpdateDue(training_step, target_critic_update),
                              HardUpdateDue(training_step, target_actor_update),
                              da, dc, gn)
                      ELSE Agent} :
                 /\ actor' = a.actor
                 /\ critic' = a.critic
                 /\ target_actor' = a.target_actor
                 /\ target_critic' = a.target_critic
                 /\ metrics' = a.metrics
                 /\ step_summaries' = a.step_summaries
                 /\ last' = [Op("backward_offline") EXCEPT
                               !.selActor = fita, !.selCritic = fitc,
                               !.fitCalled = fit,
                               !.fitActor = fit /\ fita,
                               !.fitCritic = fit /\ fitc,
                               !.rollback = a.rollback,
                               !.trace = TraceOf(a)]

\* DDPGAgent.load_weights(filepath), the files holding wa and wc
LoadWeights(wa, wc) ==
    /\ compiled
    /\ \E a \in {load_weights(Agent, wa, wc)} :
         /\ actor' = a.actor
         /\ critic' = a.critic
         /\ target_actor' = a.target_actor
         /\ target_critic' = a.target_critic
    /\ last' = [Op("load_weights") EXCEPT !.args = <<wa, wc>>]
    /\ UNCHANGED <<phase, compiled, training, counters, memory, checkpoints,
                   metrics, step_summaries, config, calls, win, acting>>

\* the exploration toggle of the driver
SetExploration(b) ==
    /\ compiled
    /\ exploration # b
    /\ exploration' = b
    /\ last' = Idle
    /\ UNCHANGED <<phase, compiled, training, counters, memory, nets,
                   checkpoints, metrics, step_summaries, config, calls, win,
                   random_process, actions_low, actions_high>>

\* DDPGAgent.select_action(state) and forward(observation), which returns
\* its result; `prev` keeps the state and the action of the call before
\* when nothing was done between the two
SelectAction(s) ==
    /\ compiled
    /\ LET noisy == AddsNoise(exploration, random_process)
       IN  \E n \in NoisesOf(noisy) :
             /\ random_process' = IF noisy THEN <<n>> ELSE random_process
             /\ last' = [Op("select_action") EXCEPT
                           !.args = <<s>>,
                           !.out = select_action(actor, s, noisy, n,
                                                 actions_low, actions_high),
                           !.prev = IF last.op = "select_action"
                                    THEN <<last.args[1], last.out>>
                                    ELSE <<>>]
    /\ UNCHANGED <<phase, compiled, training, counters, memory, nets,
                   checkpoints, metrics, step_summaries, config, calls, win,
                   exploration, actions_low, actions_high>>

\* DDPGAgent.fit_critic(batch), called on its own
FitCritic(b) ==
    /\ compiled
    /\ calls' = calls + 1
    /\ \E dc \in Deltas :
         \E a \in {fit_critic(Agent, b, dc)} :
            /\ critic' = a.critic
            /\ last' = [Op("fit_critic") EXCEPT
                          !.args = b, !.fitCritic = TRUE,
                          !.trace = TraceOf(a)]
    /\ UNCHANGED <<phase, compiled, training, counters, memory, actor,
                   target_actor, target_critic, checkpoints, metrics,
                   step_summaries, config, win, acting>>

Next ==
    \/ phase = "new" /\
          \E ao \in ActorOutputs, co \in CriticOutputs, ci \in CriticInputs,
             ta \in RawTaus, tc \in RawTaus, ti \in Intervals,
             mi \in Intervals, rc \in BOOLEAN :
               Construct(ao, co, ci, ta, tc, ti, mi, rc)
    \/ phase = "new" /\
          \E ao \in ActorOutputs, co \in CriticOutputs, ci \in CriticInputs,
             ta \in RawTaus, tc \in RawTaus :
               ConstructFails(ao, co, ci, ta, tc)
    \/ Compile
    \/ Len(checkpoints) < MaxCheckpoints /\ Checkpoint
    \/ \E b \in BOOLEAN : SetTraining(b)
    \/ training_step < MaxStep /\ \E d \in BOOLEAN : EnvStep(d)
    \/ calls < MaxCalls /\ \E wa \in Warmups, wc \in Warmups : Backward(wa, wc)
    \/ calls < MaxCalls /\ \E fita \in BOOLEAN, fitc \in BOOLEAN :
          BackwardOffline(fita, fitc)

Spec == Init /\ [][Next]_vars

\* ------------------------------------------- the cadence specification
\* A compiled agent (soft target actor, target critic of period 2, no reset)
\* driven by backward alone, for runs of WindowCalls calls at consecutive
\* training steps.
InitCadence ==
    /\ phase = "constructed"
    /\ compiled = TRUE
    /\ training \in BOOLEAN
    /\ training_step = 0
    /\ episode = 0
    /\ done = FALSE
    /\ memory = 0
    /\ actor = ActorInit
    /\ critic = CriticInit
    /\ target_actor = ActorInit
    /\ target_critic = CriticInit
    /\ checkpoints = << <<ActorInit, CriticInit>> >>
    /\ metrics = <<>>
    /\ step_summaries = 0
    /\ target_actor_update = process_parameterization_variable(1)
    /\ target_critic_update = process_parameterization_variable(10)
    /\ train_interval \in Intervals
    /\ memory_interval \in Intervals
    /\ reset_controlers = FALSE
    /\ raw_update = <<1, 10>>
    /\ exploration = FALSE
    /\ random_process = <<>>
    /\ actions_low = EnvLow
    /\ actions_high = EnvHigh
    /\ calls = 0
    /\ last = Idle
    /\ win = <<>>

NextCadence ==
    \/ \E b \in BOOLEAN : SetTraining(b)
    \/ training_step < WindowCalls - 1 /\ \E d \in BOOLEAN : EnvStep(d)
    \/ calls < WindowCalls /\ \E wa \in Warmups, wc \in Warmups : Backward(wa, wc)

SpecCadence == InitCadence /\ [][NextCadence]_vars

\* -------------------------------------- the construction specification
\* Construction over the wide ranges of the target-update arguments and of
\* the models' shapes (intervals of 1, no reset), then compile and the
\* offline cadence.
NextConstruct ==
    \/ phase = "new" /\
          \E ao \in ActorOutputs, co \in CriticOutputs, ci \in CriticInputs,
             ta \in WideTaus, tc \in WideTaus :
               Construct(ao, co, ci, ta, tc, 1, 1, FALSE)
    \/ phase = "new" /\
          \E ao \in ActorOutputs, co \in CriticOutputs, ci \in CriticInputs,
             ta \in WideTaus, tc \in WideTaus :
               ConstructFails(ao, co, ci, ta, tc)
    \/ Compile
    \/ \E b \in BOOLEAN : SetTraining(b)
    \/ training_step < MaxStep /\ EnvStep(FALSE)
    \/ calls < MaxCalls /\ \E fita \in BOOLEAN, fitc \in BOOLEAN :
          BackwardOffline(fita, fitc)

SpecConstruct == Init /\ [][NextConstruct]_vars

\* ------------------------------------------- the acting specification
\* A compiled agent in training mode (soft target actor and critic,
\* intervals of 1, no reset), with or without a random process,
\* that selects actions, loads weights and fits offline.
InitAct ==
    /\ phase = "constructed"
    /\ compiled = TRUE
    /\ training = TRUE
    /\ training_step = 0
    /\ episode = 0
    /\ done = FALSE
    /\ memory = 0
    /\ actor = ActorInit
    /\ critic = CriticInit
    /\ target_actor = ActorInit
    /\ target_critic = CriticInit
    /\ checkpoints = << <<ActorInit, CriticInit>> >>
    /\ metrics = <<>>
    /\ step_summaries = 0
    /\ target_actor_update = process_parameterization_variable(1)
    /\ target_critic_update = process_parameterization_variable(3)
    /\ train_interval = 1
    /\ memory_interval = 1
    /\ reset_controlers = FALSE
    /\ raw_update = <<1, 3>>
    /\ exploration \in BOOLEAN
    /\ random_process \in {<<>>, << <<0, 0>> >>}
    /\ actions_low = EnvLow
    /\ actions_high = EnvHigh
    /\ calls = 0
    /\ last = Idle
    /\ win = <<>>

NextAct ==
    \/ \E s \in States : SelectAction(s)
    \/ \E b \in BOOLEAN : SetExploration(b)
    \/ LoadWeights(LoadedActor, LoadedCritic)
    \/ calls < MaxCalls /\ \E fita \in BOOLEAN, fitc \in BOOLEAN :
          BackwardOffline(fita, fitc)

SpecAct == InitAct /\ [][NextAct]_vars

\* ------------------------------------------- the critic specification
\* A compiled agent whose fit_critic is called on batches of WideBatches;
\* the target critic starts at one of TargetCritics.
InitCritic ==
    /\ phase = "constructed"
    /\ compiled = TRUE
    /\ training = TRUE
    /\ training_step = 0
    /\ episode = 0
    /\ done = FALSE
    /\ memory = 0
    /\ actor = ActorInit
    /\ critic = CriticInit
    /\ target_actor = ActorInit
    /\ target_critic \in TargetCritics
    /\ checkpoints = << <<ActorInit, CriticInit>> >>
    /\ metrics = <<>>
    /\ step_summaries = 0
    /\ target_actor_update = process_parameterization_variable(1)
    /\ target_critic_update = process_parameterization_variable(10)
    /\ train_interval = 1
    /\ memory_interval = 1
    /\ reset_controlers = FALSE
    /\ raw_update = <<1, 10>>
    /\ exploration = FALSE
    /\ random_process = <<>>
    /\ actions_low = EnvLow
    /\ actions_high = EnvHigh
    /\ calls = 0
    /\ last = Idle
    /\ win = <<>>

NextCritic ==
    calls < MaxCalls /\ \E b \in WideBatches : FitCritic(b)

SpecCritic == InitCritic /\ [][NextCritic]_vars

\* ================================================================ claims
\* the last operation was a call of backward or backward_offline
IsCall == last.op \in {"backward", "backward_offline"}

\* the actor parameters stored in checkpoint index 0
Ckpt0Actor == checkpoints[1][1]

\* 1 if the condition holds, 0 otherwise
Count(b) == IF b THEN 1 ELSE 0

\* one blend step of the claims: (1 - tau) * old + tau * live, per parameter
BlendOf(tau, old, live) ==
    [i \in DOMAIN old |-> ((TauDen - tau) * old[i] + tau * live[i]) \div TauDen]

\* the rollback conditions of a call, from the agent's fields after it
RollbackDue ==
    /\ last.fitActor
    /\ reset_controlers /\ done /\ episode % 5 = 0
    /\ metrics[1] <= actor_reset_threshold

\* ---------------------------------------------------------------- C1
\* C1: in training mode a backward(warmupActor, warmupCritic) call invokes
\* the fit routine only when trainingStep mod trainInterval == 0 and a
\* network is past warm-up; in it the critic is fitted iff trainingStep >
\* warmupCritic and the actor iff trainingStep > warmupActor (strict), and
\* nothing is fitted when both are in warm-up.
C1_WarmupGatesFit ==
    (last.op = "backward" /\ training) =>
        LET due == training_step % train_interval = 0
            pa == training_step > last.wa
            pc == training_step > last.wc
        IN  /\ last.fitCalled <=> (due /\ (pa \/ pc))
            /\ last.fitCritic <=> (due /\ pc)
            /\ last.fitActor <=> (due /\ pa)
            /\ (critic # last.pre.critic) <=> (due /\ pc)
            /\ step_summaries =
                 last.pre.step_summaries + Count(due /\ pc) + Count(due /\ pa)
            /\ ~(due /\ (pa \/ pc)) =>
                 /\ actor = last.pre.actor
                 /\ critic = last.pre.critic
                 /\ target_actor = last.pre.target_actor
                 /\ target_critic = last.pre.target_critic
                 /\ metrics = last.pre.metrics

\* a training backward call at trainingStep == warmupCritic that fits the
\* actor and not the critic
C1_Witness ==
    /\ last.op = "backward" /\ training
    /\ training_step = last.wc /\ training_step > last.wa
    /\ last.fitActor /\ ~last.fitCritic
    /\ critic = last.pre.critic

\* ---------------------------------------------------------------- C2
\* C2: in training mode every backward call appends exactly one transition
\* when trainingStep mod memoryInterval == 0 and nothing otherwise, whatever
\* trainInterval and the warm-ups; with memory_interval = 2, four consecutive
\* backward calls at consecutive training steps append exactly 2.
C2_AppendCadence ==
    /\ (last.op = "backward" /\ training) =>
          memory = last.pre.memory + Count(training_step % memory_interval = 0)
    /\ (Len(win) = 4 /\ memory_interval = 2) => win[4][3] - win[1][2] = 2

\* four consecutive training backward calls with memory_interval = 2, the
\* last of them fitting nothing
C2_Witness ==
    /\ last.op = "backward" /\ training
    /\ Len(win) = 4 /\ memory_interval = 2
    /\ ~last.fitCalled /\ memory = last.pre.memory

\* ---------------------------------------------------------------- C3
\* C3 as stated: in hard mode, after every training backward call at a step
\* with trainingStep mod tau == 0 the target equals the live network, and at
\* no other step does a backward call change the target.
C3_Original ==
    (last.op = "backward" /\ training) =>
        /\ IsHard(target_actor_update) =>
             IF training_step % Period(target_actor_update) = 0
             THEN target_actor = actor
             ELSE target_actor = last.pre.target_actor
        /\ IsHard(target_critic_update) =>
             IF training_step % Period(target_critic_update) = 0
             THEN target_critic = critic
             ELSE target_critic = last.pre.target_critic

\* C3 amended: a training backward call overwrites a hard-mode target with
\* the live parameters exactly when it invokes the fit routine and
\* trainingStep mod tau == 0; otherwise the target is left alone, except that
\* a rollback sets the target actor to checkpoint 0's actor parameters.
C3_HardUpdateWhenFitting ==
    (last.op = "backward" /\ training) =>
        /\ IsHard(target_actor_update) =>
             IF last.fitCalled /\ training_step % Period(target_actor_update) = 0
             THEN target_actor = actor
             ELSE IF RollbackDue
                  THEN target_actor = Ckpt0Actor
                  ELSE target_actor = last.pre.target_actor
        /\ IsHard(target_critic_update) =>
             IF last.fitCalled /\ training_step % Period(target_critic_update) = 0
             THEN target_critic = critic
             ELSE target_critic = last.pre.target_critic

\* a hard update of period 2 that moves a stale target actor onto the actor
C3_Witness ==
    /\ last.op = "backward" /\ training /\ last.fitCalled
    /\ Period(target_actor_update) = 2
    /\ training_step % 2 = 0
    /\ last.pre.target_actor # last.pre.actor
    /\ target_actor = actor /\ target_actor # last.pre.target_actor

\* ---------------------------------------------------------------- C4
\* C4 as stated: between two hard updates no call changes a hard-mode
\* target network, rollback included.
C4_Original ==
    IsCall =>
        /\ ( /\ IsHard(target_actor_update)
             /\ ~(last.fitCalled /\ training_step % Period(target_actor_update) = 0) )
           => target_actor = last.pre.target_actor
        /\ ( /\ IsHard(target_critic_update)
             /\ ~(last.fitCalled /\ training_step % Period(target_critic_update) = 0) )
           => target_critic = last.pre.target_critic

\* C4 amended: between two hard updates a call leaves a hard-mode target
\* critic unchanged, and leaves a hard-mode target actor unchanged unless it
\* rolls the actor back, which sets the target actor to checkpoint 0's actor
\* parameters.
C4_FrozenButForRollback ==
    IsCall =>
        /\ ( /\ IsHard(target_actor_update)
             /\ ~(last.fitCalled /\ training_step % Period(target_actor_update) = 0) )
           => target_actor = IF RollbackDue THEN Ckpt0Actor
                             ELSE last.pre.target_actor
        /\ ( /\ IsHard(target_critic_update)
             /\ ~(last.fitCalled /\ training_step % Period(target_critic_update) = 0) )
           => target_critic = last.pre.target_critic

\* a fit between two hard updates that moves both live networks and neither
\* hard-mode target
C4_Witness ==
    /\ IsCall /\ last.fitActor /\ last.fitCritic /\ ~RollbackDue
    /\ Period(target_actor_update) = 2 /\ Period(target_critic_update) = 2
    /\ training_step % 2 = 1
    /\ actor # last.pre.actor /\ critic # last.pre.critic
    /\ target_actor = last.pre.target_actor /\ target_actor # actor
    /\ target_critic = last.pre.target_critic

\* ---------------------------------------------------------------- C5
\* C5 as stated: every invocation of the fit routine leaves each soft-mode
\* target at (1 - tau) * target_old + tau * live, target_old being the target
\* before the call and live the live parameters after the call's fit steps.
C5_Original ==
    (IsCall /\ last.fitCalled) =>
        /\ ~IsHard(target_actor_update) =>
             target_actor =
               BlendOf(target_actor_update, last.pre.target_actor, actor)
        /\ ~IsHard(target_critic_update) =>
             target_critic =
               BlendOf(target_critic_update, last.pre.target_critic, critic)

\* C5 amended: every invocation of the fit routine applies one blend step to
\* each soft-mode target, ungated and also when only the other network was
\* fitted, with the live parameters as they are after the call's fit steps;
\* target_old is the target before the call, except that a rollback in the
\* call has first set the target actor to checkpoint 0's actor parameters.
C5_SoftBlendEveryFit ==
    (IsCall /\ last.fitCalled) =>
        /\ ~IsHard(target_actor_update) =>
             target_actor =
               BlendOf(target_actor_update,
                       IF RollbackDue THEN Ckpt0Actor ELSE last.pre.target_actor,
                       actor)
        /\ ~IsHard(target_critic_update) =>
             target_critic =
               BlendOf(target_critic_update, last.pre.target_critic, critic)

\* a fit of the critic alone that moves a lagging soft-mode target actor
C5_Witness ==
    /\ IsCall /\ last.fitCalled /\ last.fitCritic /\ ~last.fitActor
    /\ ~IsHard(target_actor_update) /\ target_actor_update > 0
    /\ actor = last.pre.actor
    /\ target_actor # last.pre.target_actor
    /\ target_actor # actor

C7_Original ==
    ( /\ IsCall /\ last.fitActor
      /\ reset_controlers
      /\ metrics[1] <= actor_reset_threshold )
    => /\ actor = Ckpt0Actor
       /\ target_actor = Ckpt0Actor

\* C7 amended: after an actor fit with rollback enabled and a gradient norm
\* <= the threshold, the actor and its target are restored from checkpoint 0
\* if the call is at an episode boundary (done) with episode mod 5 == 0, and
\* otherwise the actor keeps the result of its optimiser step.
C7_RollbackOnlyAtEpisodeBoundary ==
    ( /\ IsCall /\ last.fitActor
      /\ reset_controlers
      /\ metrics[1] <= actor_reset_threshold )
    => IF done /\ episode % 5 = 0
       THEN /\ last.rollback
            /\ actor = Ckpt0Actor
            /\ target_actor = Ckpt0Actor
       ELSE /\ ~last.rollback
            /\ \E d \in Deltas :
                 actor = [i \in DOMAIN actor |-> last.pre.actor[i] + d]

\* an actor fit with a flat gradient and rollback enabled, away from an
\* episode boundary: no restore
C7_Witness ==
    /\ IsCall /\ last.fitActor /\ reset_controlers
    /\ metrics[1] <= actor_reset_threshold
    /\ ~done
    /\ actor # Ckpt0Actor /\ actor # last.pre.actor

\* ---------------------------------------------------------------- C8
\* C8: backwardOffline(fitActor, fitCritic) never appends to the replay
\* buffer, fits exactly the networks the caller selected whatever the
\* warm-up, does nothing unless training mode is on and trainingStep mod
\* trainInterval == 0, and uses backward's hard-update and actor-reset
\* eligibility.
C8_OfflineCadence ==
    (last.op = "backward_offline") =>
        LET go == training /\ training_step % train_interval = 0
        IN  /\ memory = last.pre.memory
            /\ last.fitCalled <=> (go /\ (last.selActor \/ last.selCritic))
            /\ last.fitActor <=> (go /\ last.selActor)
            /\ last.fitCritic <=> (go /\ last.selCritic)
            /\ (critic # last.pre.critic) <=> (go /\ last.selCritic)
            /\ step_summaries = last.pre.step_summaries
                 + Count(go /\ last.selActor) + Count(go /\ last.selCritic)
            /\ ~(go /\ (last.selActor \/ last.selCritic)) =>
                 /\ actor = last.pre.actor
                 /\ critic = last.pre.critic
                 /\ target_actor = last.pre.target_actor
                 /\ target_critic = last.pre.target_critic
                 /\ metrics = last.pre.metrics
            /\ last.rollback <=> RollbackDue
            /\ (last.fitCalled /\ IsHard(target_critic_update)) =>
                 target_critic =
                   IF training_step % Period(target_critic_update) = 0
                   THEN critic ELSE last.pre.target_critic
            /\ (last.fitCalled /\ IsHard(target_actor_update)) =>
                 target_actor =
                   IF training_step % Period(target_actor_update) = 0
                   THEN actor
                   ELSE IF RollbackDue THEN Ckpt0Actor
                        ELSE last.pre.target_actor

\* an offline call at step 0, below every warm-up, that fits the actor alone
\* and appends nothing although an append would be due in backward
C8_Witness ==
    /\ last.op = "backward_offline" /\ training
    /\ training_step = 0
    /\ last.selActor /\ ~last.selCritic
    /\ last.fitActor /\ ~last.fitCritic
    /\ actor # last.pre.actor /\ critic = last.pre.critic
    /\ memory = last.pre.memory

\* ---------------------------------------------------------------- C9
\* C9: outside training mode backward and backwardOffline change nothing:
\* replay buffer, live networks, targets, checkpoints and metrics are as
\* before, whatever trainingStep, episode and done.
C9_NoOpWhenNotTraining ==
    (IsCall /\ ~training) =>
        /\ memory = last.pre.memory
        /\ actor = last.pre.actor
        /\ critic = last.pre.critic
        /\ target_actor = last.pre.target_actor
        /\ target_critic = last.pre.target_critic
        /\ checkpoints = last.pre.checkpoints
        /\ metrics = last.pre.metrics
        /\ step_summaries = last.pre.step_summaries
        /\ ~last.fitCalled

\* a backward call outside training mode at a step where a training call
\* would append and fit
C9_Witness ==
    /\ last.op = "backward" /\ ~training
    /\ training_step > last.wa /\ training_step > last.wc
    /\ training_step % train_interval = 0
    /\ training_step % memory_interval = 0
    /\ done /\ episode > 0
    /\ memory = last.pre.memory

\* --------------------------------------------------------------- C10
\* C10: with tau = 1 for both targets, after any invocation of the fit
\* routine reached through backward the target actor equals the live actor
\* and the target critic the live critic, whichever network was fitted and
\* whether or not a rollback happened.
C10_TauOneTargetsEqualLive ==
    ( /\ last.op = "backward" /\ last.fitCalled
      /\ target_actor_update = TauDen /\ target_critic_update = TauDen )
    => /\ target_actor = actor
       /\ target_critic = critic

\* such a fit of the actor alone, moving the actor and its target
C10_Witness ==
    /\ last.op = "backward" /\ last.fitCalled
    /\ target_actor_update = TauDen /\ target_critic_update = TauDen
    /\ last.fitActor /\ ~last.fitCritic
    /\ actor # last.pre.actor
    /\ target_actor = actor /\ target_critic = critic

CtorActorTau == last.args[4]
CtorCriticTau == last.args[5]

\* no agent was produced: the construction failed, nothing is compiled,
\* no network is held and no call was ever served
NoAgent ==
    /\ phase = "failed"
    /\ ~compiled
    /\ nets = <<<<>>, <<>>, <<>>, <<>>>>
    /\ checkpoints = <<>>
    /\ calls = 0

\* C12: a constructor call with a negative target-update argument, for the
\* actor or for the critic, fails and produces no agent; a failed
\* construction is never an agent later; and in every state of a
\* constructed agent both stored target-update parameters are >= 0.
C12_NegativeTauRejected ==
    /\ (last.op = "construct" /\ (CtorActorTau < 0 \/ CtorCriticTau < 0))
          => NoAgent
    /\ phase = "failed" => NoAgent
    /\ phase = "constructed" =>
          /\ target_actor_update >= 0 /\ target_critic_update >= 0
          /\ raw_update[1] >= 0 /\ raw_update[2] >= 0

\* a construction with accepted models that failed on the actor's negative
\* parameter alone
C12_Witness ==
    /\ last.op = "construct"
    /\ last.args[1] <= 1 /\ last.args[2] <= 1 /\ last.args[3] >= 2
    /\ CtorActorTau < 0 /\ CtorCriticTau >= 0
    /\ phase = "failed"

\* ---------------------------------------------------------------- C13
\* the stored value of a raw target-update argument: its integer floor, at
\* least 1, when the argument is >= 1; the argument itself below 1
Classified(raw, stored) ==
    IF raw >= TauDen
    THEN /\ stored % TauDen = 0
         /\ stored >= TauDen
         /\ stored <= raw /\ raw < stored + TauDen
    ELSE stored = raw

\* what a fit call at the given step does to a target of the raw argument:
\* a copy of the live weights every floor(raw) steps when raw >= 1, the
\* blend of coefficient raw otherwise
ModeOf(raw, step, old, live) ==
    IF raw >= TauDen
    THEN IF step % (raw \div TauDen) = 0 THEN live ELSE old
    ELSE BlendOf(raw, old, live)

\* C13: the stored target-update parameters of a constructed agent are the
\* classification of the constructor's arguments, and every fit call
\* treats each target in the mode of that classification.
C13_ClassifiedAtConstruction ==
    phase = "constructed" =>
        /\ Classified(raw_update[1], target_actor_update)
        /\ Classified(raw_update[2], target_critic_update)
        /\ (IsCall /\ last.fitCalled /\ ~last.rollback) =>
              /\ target_actor = ModeOf(raw_update[1], training_step,
                                       last.pre.target_actor, actor)
              /\ target_critic = ModeOf(raw_update[2], training_step,
                                        last.pre.target_critic, critic)

\* a fit call at an odd step that fitted both networks of an agent
\* constructed with 2.75 for the actor (period 2: no update at this step)
\* and 0.75 for the critic (the blend)
C13_Witness ==
    /\ phase = "constructed"
    /\ raw_update = <<11, 3>>
    /\ target_actor_update = 8 /\ target_critic_update = 3
    /\ IsCall /\ last.fitActor /\ last.fitCritic
    /\ training_step = 1
    /\ target_actor = last.pre.target_actor /\ target_actor # actor
    /\ target_critic # critic /\ target_critic # last.pre.target_critic

\* ---------------------------------------------------------------- C16
\* the models of the constructor call that was the last operation: the
\* lengths of the actor's output, the critic's output and the critic's
\* input (0 for a single tensor)
CtorBadModels ==
    \/ last.args[1] > 1
    \/ last.args[2] > 1
    \/ last.args[3] < 2

\* C16: a constructor call whose actor has more than one output, whose
\* critic has more than one output or whose critic has fewer than two
\* inputs fails, produces no agent, and has set none of the agent's fields.
C16_BadModelsRejected ==
    (last.op = "construct" /\ CtorBadModels) =>
        /\ NoAgent
        /\ config = <<0, 0, 1, 1, FALSE, <<>>>>
        /\ acting = <<FALSE, <<>>, <<>>, <<>>>>

\* a construction that failed on the critic's single input alone, with
\* target-update arguments that are accepted
C16_Witness ==
    /\ last.op = "construct"
    /\ last.args[1] <= 1 /\ last.args[2] <= 1 /\ last.args[3] = 1
    /\ CtorActorTau >= 0 /\ CtorCriticTau >= 0
    /\ phase = "failed"
    /\ actions_low = <<>>

\* ---------------------------------------------------------------- C14
\* the action a select_action call clips: the actor's output for the state,
\* plus the sample the random process gave when exploration was on and a
\* random process was configured
Unclipped ==
    LET raw == Policy(actor, last.args[1])
    IN  IF exploration /\ last.pre.random_process # <<>>
        THEN [i \in DOMAIN raw |-> raw[i] + random_process[1][i]]
        ELSE raw

\* C14: the action select_action (and so forward) returns lies, component
\* by component, inside [actions_low, actions_high]; it is the clipping of
\* the actor's output plus the noise, the noise being drawn and added only
\* when exploration is on and a random process is configured.
C14_ActionClipped ==
    last.op = "select_action" =>
        /\ \A i \in DOMAIN last.out :
              /\ actions_low[i] <= last.out[i]
              /\ last.out[i] <= actions_high[i]
              /\ last.out[i] = Min(Max(Unclipped[i], actions_low[i]),
                                   actions_high[i])
        /\ DOMAIN last.out = DOMAIN actions_low
        /\ ~(exploration /\ last.pre.random_process # <<>>)
              => random_process = last.pre.random_process

\* a call whose actor output is inside the bounds in its first component,
\* whose noise takes it above the upper bound, and which returns the bound
C14_Witness ==
    /\ last.op = "select_action"
    /\ exploration /\ last.pre.random_process # <<>>
    /\ Policy(actor, last.args[1])[1] <= actions_high[1]
    /\ Policy(actor, last.args[1])[1] >= actions_low[1]
    /\ Unclipped[1] > actions_high[1]
    /\ last.out[1] = actions_high[1]

\* ---------------------------------------------------------------- C15
\* C15: a select_action call made with no random process configured leaves
\* the actor, the critic, the targets, the replay buffer, the checkpoints
\* and the counters as they were, and returns the action the call just
\* before it returned when that call was given the same state.
C15_SelectDeterministic ==
    (last.op = "select_action" /\ last.pre.random_process = <<>>) =>
        /\ Pre = last.pre
        /\ (last.prev # <<>> /\ last.prev[1] = last.args[1])
              => last.out = last.prev[2]

\* two calls in a row on the same state, exploration on, no random process
C15_Witness ==
    /\ last.op = "select_action"
    /\ last.pre.random_process = <<>>
    /\ exploration
    /\ last.prev # <<>> /\ last.prev[1] = last.args[1]
    /\ last.out = last.prev[2]

\* ---------------------------------------------------------------- C17
\* s is an initial segment of t
IsPrefix(s, t) ==
    /\ Len(s) <= Len(t)
    /\ \A i \in 1 .. Len(s) : t[i] = s[i]

\* C17: every step keeps the checkpoint log as an initial segment of the
\* log after it (no entry removed, moved or changed), and a step that
\* rolls the actor back reads entry 0 and leaves the log as it was.
C17_CheckpointsAppendOnly ==
    [][ /\ IsPrefix(checkpoints, checkpoints')
        /\ last'.rollback =>
              /\ checkpoints' = checkpoints
              /\ actor' = checkpoints[1][1] ]_vars

\* a rollback made with two different entries in the log, after which the
\* log still holds both in their order
C17_Witness ==
    /\ IsCall /\ last.rollback
    /\ Len(checkpoints) = 2
    /\ checkpoints[1] # checkpoints[2]
    /\ checkpoints = last.pre.checkpoints
    /\ checkpoints[2][1] = last.pre.actor
    /\ actor = checkpoints[1][1]

\* ---------------------------------------------------------------- C18
\* the target Q value of a transition under the given target weights
TargetQ(ta, tc, tr) == QValue(tc, tr.state1, Policy(ta, tr.state1))

\* C18: the targets a fit_critic call regresses on are, transition by
\* transition, reward + gamma * targetQ with targetQ given by the target
\* networks as they were on entry; two transitions of the batch with the
\* same reward and next state have the same target whatever their
\* terminal flags.
C18_TDTargetFromTargets ==
    last.op = "fit_critic" =>
        LET b == last.args
            y == last.trace.y
        IN  /\ DOMAIN y = DOMAIN b
            /\ \A i \in DOMAIN b :
                  y[i] = b[i].reward
                         + (gamma * TargetQ(last.pre.target_actor,
                                            last.pre.target_critic, b[i]))
                               \div GammaDen
            /\ \A i \in DOMAIN b, j \in DOMAIN b :
                  (b[i].reward = b[j].reward /\ b[i].state1 = b[j].state1)
                     => y[i] = y[j]

\* reward 1.0 and target Q 2.0 give 2.98 for a terminal and a non-terminal
\* transition alike, the live critic differing from the target critic
C18_Witness ==
    /\ last.op = "fit_critic"
    /\ last.pre.critic # last.pre.target_critic
    /\ last.args[1].reward = 100 /\ last.args[2].reward = 100
    /\ last.args[1].state1 = last.args[2].state1
    /\ last.args[1].terminal1 /\ ~last.args[2].terminal1
    /\ TargetQ(last.pre.target_actor, last.pre.target_critic, last.args[1]) = 200
    /\ last.trace.y = <<298, 298>>

\* ---------------------------------------------------------------- C19
\* C19: a call of the fit routine rolls the actor back only when it fitted
\* the actor, the episode has just ended, episode mod 5 = 0, the reset is
\* enabled and the recorded gradient norm is <= the threshold; a fit call
\* whose actor is not what the optimiser step produced is such a call, and
\* a fit call that did not fit the actor leaves it alone.
C19_RollbackOnlyWhenAllHold ==
    (IsCall /\ last.fitCalled) =>
        LET stepped == \E d \in Deltas : actor = ApplyStep(last.pre.actor, d)
            allHold == /\ last.fitActor
                       /\ done
                       /\ episode % 5 = 0
                       /\ reset_controlers
                       /\ metrics # <<>>
                       /\ metrics[1] <= actor_reset_threshold
        IN  /\ last.rollback => allHold
            /\ (last.fitActor /\ ~stepped) => allHold
            /\ (last.fitActor /\ ~allHold) => stepped
            /\ ~last.fitActor => actor = last.pre.actor

\* an actor fit at the end of episode 0 with the reset enabled whose
\* gradient norm is above the threshold: the optimiser's actor is kept
C19_Witness ==
    /\ IsCall /\ last.fitActor
    /\ done /\ episode % 5 = 0 /\ reset_controlers
    /\ metrics[1] > actor_reset_threshold
    /\ ~last.rollback
    /\ actor # last.pre.actor /\ actor # Ckpt0Actor

\* ---------------------------------------------------------------- C20
\* the target weights a fit call's synchronisation starts from: those on
\* entry, or checkpoint 0 for the target actor after a rollback
SyncBase(isActor) ==
    IF isActor
    THEN IF last.rollback THEN Ckpt0Actor ELSE last.pre.target_actor
    ELSE last.pre.target_critic

\* a target after the synchronisation of a fit call
Synced(tau, base, live) ==
    IF IsHard(tau)
    THEN IF training_step % Period(tau) = 0 THEN live ELSE base
    ELSE BlendOf(tau, base, live)

\* C20: a call of the fit routine samples one batch; its critic fit
\* computes the targets from the target networks as they were on entry;
\* its actor fit comes after the critic's step and measures the gradient
\* norm at the actor's weights on entry, before the optimiser step; the
\* rollback is decided on that norm and replaces the stepped actor; and
\* the targets are synchronised last, from the live networks as the fits
\* and the rollback left them.
C20_FitOrder ==
    (IsCall /\ last.fitCalled) =>
        LET t == last.trace
            p == last.pre
        IN  /\ t.sampled = 1
            /\ last.fitCritic =>
                  /\ t.td_from = <<p.target_actor, p.target_critic>>
                  /\ \E b \in Batches :
                        t.y = critic_targets(b, p.target_actor, p.target_critic)
                  /\ \E d \in Deltas : critic = ApplyStep(p.critic, d)
            /\ last.fitActor =>
                  /\ t.grad_at = p.actor
                  /\ t.critic_at = critic
                  /\ last.rollback =
                        (CanResetActor /\ metrics[1] <= actor_reset_threshold)
                  /\ IF last.rollback
                     THEN actor = Ckpt0Actor
                     ELSE \E d \in Deltas : actor = ApplyStep(t.grad_at, d)
            /\ target_actor = Synced(target_actor_update, SyncBase(TRUE), actor)
            /\ target_critic = Synced(target_critic_update, SyncBase(FALSE), critic)

\* a call that fitted both networks and rolled the actor back, the targets
\* on entry differing from the live networks and the soft target critic
\* moving towards the stepped critic
C20_Witness ==
    /\ IsCall /\ last.fitActor /\ last.fitCritic /\ last.rollback
    /\ last.pre.target_actor # last.pre.actor
    /\ last.pre.target_critic # last.pre.critic
    /\ last.trace.critic_at # last.pre.critic
    /\ last.trace.grad_at # actor
    /\ ~IsHard(target_critic_update)
    /\ target_critic # last.pre.target_critic
    /\ target_critic # critic

\* ---------------------------------------------------------------- C21
\* C21: a call that rolls the actor back leaves the critic as the call's
\* critic fit produced it (as it was on entry when the critic was not
\* fitted) and the target critic as the call's synchronisation makes it
\* from the target critic on entry and that critic: checkpoint 0's critic
\* is restored to neither.
C21_RollbackSparesCritic ==
    (IsCall /\ last.rollback) =>
        /\ IF last.fitCritic
           THEN \E d \in Deltas : critic = ApplyStep(last.pre.critic, d)
           ELSE critic = last.pre.critic
        /\ critic = last.trace.critic_at
        /\ target_critic =
              Synced(target_critic_update, last.pre.target_critic, critic)

\* a rollback in a call that fitted the critic too, the critic and the
\* target critic both ending away from checkpoint 0's critic
C21_Witness ==
    /\ IsCall /\ last.rollback /\ last.fitCritic
    /\ actor = Ckpt0Actor /\ target_actor = Ckpt0Actor
    /\ critic # checkpoints[1][2]
    /\ target_critic # checkpoints[1][2]
    /\ critic # last.pre.critic

\* ---------------------------------------------------------------- C22
\* C22: the step that marks the agent compiled appends one entry, the
\* actor's and the critic's weights of that moment, to the checkpoint log;
\* a compiled agent's log is never empty; a step that lengthens the log
\* adds one entry holding the live weights and is no backward or
\* backward_offline call, which leave the log as it was.
C22_CompileCheckpointsOnce ==
    /\ [](compiled => Len(checkpoints) >= 1)
    /\ [][ /\ (~compiled /\ compiled') =>
                 /\ checkpoints' = Append(checkpoints, <<actor, critic>>)
                 /\ actor' = actor /\ critic' = critic
           /\ Len(checkpoints') > Len(checkpoints) =>
                 /\ checkpoints' = Append(checkpoints, <<actor', critic'>>)
                 /\ last'.op = "none"
                 /\ calls' = calls
           /\ last'.op \in {"backward", "backward_offline"} =>
                 checkpoints' = checkpoints ]_vars

\* a rollback served by the single entry compile appended, after the
\* critic has moved away from it
C22_Witness ==
    /\ compiled
    /\ checkpoints = << <<ActorInit, CriticInit>> >>
    /\ IsCall /\ last.rollback
    /\ last.pre.actor # ActorInit
    /\ critic # CriticInit
    /\ actor = ActorInit

\* ---------------------------------------------------------------- C23
\* what the backward call that was the last operation decided
Decisions ==
    <<last.appended, last.fitCalled, last.fitActor, last.fitCritic, last.out>>

\* C23: a backward or backward_offline call, fit routine included, leaves
\* training_step, episode and done as they were; and a backward call made
\* right after another with the same arguments, so at the same
\* training_step, takes the same append, fit and hard-update decisions.
C23_CountersUntouched ==
    /\ IsCall =>
          /\ training_step = last.pre.training_step
          /\ episode = last.pre.episode
          /\ done = last.pre.done
    /\ (last.op = "backward" /\ last.prev # <<>>) => Decisions = last.prev

\* two backward calls in a row at a step where a transition is due, both
\* appending and both fitting
C23_Witness ==
    /\ last.op = "backward" /\ last.prev # <<>>
    /\ training_step % memory_interval = 0
    /\ last.appended /\ last.prev[1]
    /\ last.fitCalled /\ last.prev[2]
    /\ memory = 2
    /\ training_step = 1
====
